---- MODULE Spec2Model ----
(***************************************************************************)
(* Model of train.py: batching (indexesFromSentence, zeroPadding,          *)
(* binaryMatrix, inputVar, outputVar, batch2TrainData), the masked loss,   *)
(* one training iteration (train) and the iteration driver (trainIters).   *)
(*                                                                         *)
(* Strings are sequences of one-character strings, so that split, format   *)
(* and os.path.join are computed as Python computes them.  Floating-point  *)
(* numbers are exact rationals <<numerator, denominator>>; <<0, 0>> is NaN *)
(* (the mean of an empty tensor).                                          *)
(***************************************************************************)
EXTENDS Integers, Sequences, FiniteSets, TLC

VARIABLES
    \* ---- a single call of one of the pure batching functions
    call,               \* the function called and its arguments
    ret,                \* what the call returned (or raised)
    \* ---- arguments of trainIters
    voc, pairs, decoder, n_iteration, batch_size, print_every, save_every,
    clip, loadFilename,
    \* ---- locals of trainIters
    pc, training_batches, start_iteration, print_loss, iteration, loss, error,
    \* ---- locals of train
    input_variable, lengths, target_variable, mask, max_target_len,
    t, use_teacher_forcing, decoder_input, decoder_output, decoder_hidden,
    train_loss, print_losses, n_totals, mask_loss, nTotal,
    \* ---- the collaborators' state and the outside world
    grads,              \* gradient buffers of encoder and decoder
    steps,              \* optimizer steps taken by each optimizer
    files,              \* checkpoint files written: path -> content
    events,             \* the calls made on the collaborators, in order
    step_log            \* the masked losses of the latest call of train, by step

callVars   == <<call, ret>>
argVars    == <<voc, pairs, decoder, n_iteration, batch_size, print_every,
                save_every, clip, loadFilename>>
iterVars   == <<training_batches, start_iteration, print_loss, iteration,
                loss, error>>
batchVars  == <<input_variable, lengths, target_variable, mask, max_target_len>>
decodeVars == <<t, use_teacher_forcing, decoder_input, decoder_output,
                decoder_hidden, train_loss, print_losses, n_totals,
                mask_loss, nTotal>>
worldVars  == <<grads, steps, files>>
vars == <<callVars, argVars, pc, iterVars, batchVars, decodeVars, worldVars,
          events, step_log>>

-----------------------------------------------------------------------------
(* Bounds of the model *)

MaxBatch == 2       \* longest list handed to a batching function; largest batch_size of one train call
MaxLen == 2         \* longest integer sequence handed to zeroPadding / binaryMatrix
MaxIter == 2        \* largest n_iteration of a trainIters run

-----------------------------------------------------------------------------
(* Reserved token ids and configuration imported from load / config *)

PAD_token == 0
SOS_token == 1
EOS_token == 2
hidden_size == 500

-----------------------------------------------------------------------------
(* Numbers *)

Max(S) == CHOOSE x \in S : \A y \in S : y <= x
Min(S) == CHOOSE x \in S : \A y \in S : x <= y
Abs(n) == IF n < 0 THEN -n ELSE n

RECURSIVE GCD(_, _)
GCD(a, b) == IF b = 0 THEN a ELSE GCD(b, a % b)

NaN == <<0, 0>>
IsNaN(x) == x[2] = 0
\* the float n/d (d >= 0), in lowest terms; anything over 0 is NaN here,
\* Python's ZeroDivisionError being raised where the code divides
Rat(n, d) == IF d = 0 THEN NaN
             ELSE LET g == GCD(Abs(n), d) IN <<n \div g, d \div g>>
RatAdd(x, y) == IF IsNaN(x) \/ IsNaN(y) THEN NaN
                ELSE Rat(x[1] * y[2] + y[1] * x[2], x[2] * y[2])
RatMul(x, k) == IF IsNaN(x) THEN NaN ELSE Rat(x[1] * k, x[2])
RatDiv(x, k) == IF IsNaN(x) THEN NaN ELSE Rat(x[1], x[2] * k)
Zero == <<0, 1>>

RECURSIVE SumSeq(_)
\* Python's sum(list): 0 + list[0] + list[1] + ...
SumSeq(s) == IF s = <<>> THEN Zero
             ELSE RatAdd(SumSeq(SubSeq(s, 1, Len(s) - 1)), s[Len(s)])

RECURSIVE SumInts(_)
SumInts(s) == IF s = <<>> THEN 0 ELSE Head(s) + SumInts(Tail(s))

SeqsUpTo(S, n) == UNION {[1..k -> S] : k \in 0..n}

-----------------------------------------------------------------------------
(* Strings *)

RECURSIVE split(_, _)
\* str.split(sep) for a one-character separator
split(s, sep) ==
    LET at == {i \in 1..Len(s) : s[i] = sep}
    IN  IF at = {} THEN <<s>>
        ELSE LET i == Min(at)
             IN  <<SubSeq(s, 1, i - 1)>> \o split(SubSeq(s, i + 1, Len(s)), sep)

Digit(d) == CASE d = 0 -> "0" [] d = 1 -> "1" [] d = 2 -> "2" [] d = 3 -> "3"
              [] d = 4 -> "4" [] d = 5 -> "5" [] d = 6 -> "6" [] d = 7 -> "7"
              [] d = 8 -> "8" [] d = 9 -> "9"

RECURSIVE FormatInt(_)
\* '{}'.format(n) for an int n >= 0
FormatInt(n) == IF n < 10 THEN <<Digit(n)>>
                ELSE FormatInt(n \div 10) \o <<Digit(n % 10)>>

\* os.path.join(a, b) on a POSIX system
PathJoin2(a, b) ==
    IF Len(b) > 0 /\ b[1] = "/" THEN b
    ELSE IF a = <<>> \/ a[Len(a)] = "/" THEN a \o b
    ELSE a \o <<"/">> \o b

RECURSIVE PathJoin(_)
PathJoin(parts) == IF Len(parts) = 1 THEN parts[1]
                   ELSE PathJoin2(PathJoin(SubSeq(parts, 1, Len(parts) - 1)),
                                  parts[Len(parts)])

-----------------------------------------------------------------------------
(* Batching *)

Ok(v) == [error |-> "None", value |-> v]
Raise(e) == [error |-> e, value |-> <<>>]

\* [voc.word2index[word] for word in sentence.split(' ')] + [EOS_token]
indexesFromSentence(v, sentence) ==
    LET words == split(sentence, " ")
    IN  IF \E k \in 1..Len(words) : words[k] \notin DOMAIN v.word2index
        THEN Raise("KeyError")
        ELSE Ok([k \in 1..Len(words) |-> v.word2index[words[k]]] \o <<EOS_token>>)

zeroPadding_shortest(l, fillvalue) ==
    IF l = <<>> THEN <<>>
    ELSE [r \in 1..Min({Len(l[i]) : i \in 1..Len(l)}) |->
             [i \in 1..Len(l) |-> l[i][r]]]

\* list(itertools.zip_longest(*l, fillvalue=fillvalue)): row r holds position r
\* of every sequence
zeroPadding(l, fillvalue) ==
    IF l = <<>> THEN <<>>
    ELSE [r \in 1..Max({Len(l[i]) : i \in 1..Len(l)}) |->
             [i \in 1..Len(l) |->
                 IF r <= Len(l[i]) THEN l[i][r] ELSE fillvalue]]

binaryMatrix_inverted(l, value) ==
    [i \in 1..Len(l) |->
        [j \in 1..Len(l[i]) |-> IF l[i][j] = PAD_token THEN 1 ELSE 0]]

binaryMatrix_value(l, value) ==
    [i \in 1..Len(l) |->
        [j \in 1..Len(l[i]) |-> IF l[i][j] = value THEN 0 ELSE 1]]

\* the value argument is not read: every token is compared with PAD_token
binaryMatrix(l, value) ==
    [i \in 1..Len(l) |->
        [j \in 1..Len(l[i]) |-> IF l[i][j] = PAD_token THEN 0 ELSE 1]]

\* [indexesFromSentence(voc, sentence) for sentence in l]
indexes_batch(l, v) ==
    LET each == [i \in 1..Len(l) |-> indexesFromSentence(v, l[i])]
    IN  IF \E i \in 1..Len(l) : each[i].error # "None" THEN Raise("KeyError")
        ELSE Ok([i \in 1..Len(l) |-> each[i].value])

inputVar(l, v) ==
    LET ib == indexes_batch(l, v)
    IN  IF ib.error # "None" THEN ib
        ELSE Ok([padVar  |-> zeroPadding(ib.value, PAD_token),
                 lengths |-> [i \in 1..Len(l) |-> Len(ib.value[i])]])

outputVar(l, v) ==
    LET ib == indexes_batch(l, v)
    IN  IF ib.error # "None" THEN ib
        ELSE IF l = <<>> THEN Raise("ValueError")      \* max([])
        ELSE LET padList == zeroPadding(ib.value, PAD_token)
             IN  Ok([padVar |-> padList,
                     mask   |-> binaryMatrix(padList, PAD_token),
                     max_target_len |->
                         Max({Len(ib.value[i]) : i \in 1..Len(l)})])

\* the sort key of batch2TrainData: len(x[0].split(" "))
sortKey(pair) == Len(split(pair[1], " "))

sortPairs_ascending(pair_batch) ==
    LET n == Len(pair_batch)
        pos(i) == Cardinality({j \in 1..n : sortKey(pair_batch[j]) < sortKey(pair_batch[i])})
                  + Cardinality({j \in 1..i : sortKey(pair_batch[j]) = sortKey(pair_batch[i])})
    IN  [p \in 1..n |-> pair_batch[CHOOSE i \in 1..n : pos(i) = p]]

\* pair_batch.sort(key=..., reverse=True): descending and stable
sortPairs(pair_batch) ==
    LET n == Len(pair_batch)
        pos(i) == Cardinality({j \in 1..n : sortKey(pair_batch[j]) > sortKey(pair_batch[i])})
                  + Cardinality({j \in 1..i : sortKey(pair_batch[j]) = sortKey(pair_batch[i])})
    IN  [p \in 1..n |-> pair_batch[CHOOSE i \in 1..n : pos(i) = p]]

\* the result of batch2TrainData, with the list it sorted in place
batch2TrainData(v, pair_batch) ==
    LET sorted == sortPairs(pair_batch)
        input_batch  == [i \in 1..Len(sorted) |-> sorted[i][1]]
        output_batch == [i \in 1..Len(sorted) |-> sorted[i][2]]
        i_ == inputVar(input_batch, v)
        o_ == outputVar(output_batch, v)
    IN  IF i_.error # "None" THEN [i_ EXCEPT !.value = [pair_batch |-> sorted]]
        ELSE IF o_.error # "None" THEN [o_ EXCEPT !.value = [pair_batch |-> sorted]]
        ELSE Ok([inp            |-> i_.value.padVar,
                 lengths        |-> i_.value.lengths,
                 output         |-> o_.value.padVar,
                 mask           |-> o_.value.mask,
                 max_target_len |-> o_.value.max_target_len,
                 pair_batch     |-> sorted])

-----------------------------------------------------------------------------
(* Masked loss *)

\* inp.ce[i] stands for -log(inp[i][target[i]]), the gathered cross-entropy of
\* example i; the mean is taken over the positions the mask selects
maskNLLLoss(inp, target, mask_row) ==
    LET selected == {i \in 1..Len(mask_row) : mask_row[i] = 1}
        picked   == [i \in 1..Len(mask_row) |->
                        IF i \in selected THEN inp.ce[i] ELSE 0]
    IN  [loss   |-> Rat(SumInts(picked), Cardinality(selected)),
         nTotal |-> SumInts(mask_row)]

-----------------------------------------------------------------------------
(* Inputs *)

Voc == [word2index |-> (<<"a">> :> 3) @@ (<<"b">> :> 4) @@ (<<"c">> :> 5)]
\* a vocabulary that gives a word the padding id
VocPad == [word2index |-> (<<"a">> :> 3) @@ (<<"b">> :> 4) @@ (<<"c">> :> PAD_token)]

PairABC_B == << <<"a", " ", "b", " ", "c">>, <<"b">> >>
PairA_BC  == << <<"a">>, <<"b", " ", "c">> >>
PairBA_C  == << <<"b", " ", "a">>, <<"c">> >>
PairCB_AB == << <<"c", " ", "b">>, <<"a", " ", "b">> >>
PairU_A   == << <<"u">>, <<"a">> >>              \* a word no vocabulary holds
PairA_    == << <<"a">>, <<>> >>                 \* an empty target sentence

\* the pairs a list handed to batch2TrainData is drawn from
CallPairs == {PairABC_B, PairA_BC, PairBA_C, PairCB_AB, PairU_A, PairA_}
\* the tokens an integer sequence handed to zeroPadding / binaryMatrix holds
CallTokens == {PAD_token, 3, 4}

\* the corpus of a run that is followed through one train call
TrainPairs == <<PairABC_B, PairA_BC, PairBA_C>>
\* the corpus of a run that is followed through all its iterations
IterPairs == <<PairABC_B, PairBA_C>>

\* A decoder is known here by the outputs it can produce: per example, the
\* top-1 token and the cross-entropy of the target token (in units of -log p)
TrainDecoder == [n_layers |-> 2, topis |-> {EOS_token, 3}, ces |-> {1, 2}]
IterDecoder  == [n_layers |-> 2, topis |-> {EOS_token}, ces |-> {1, 2}]

DecoderOutputs(d, n) ==
    {[topi |-> a, ce |-> c] : a \in [1..n -> d.topis], c \in [1..n -> d.ces]}

\* Python truthiness of loadFilename ("None" stands for None)
Truthy(f) == f \notin {"None", ""}

NoOutput == [topi |-> <<>>, ce |-> <<>>]
NoGrad == [state |-> "none", of |-> Zero, max_norm |-> 0]

-----------------------------------------------------------------------------
(* Initial states *)

NoCall == call = [fn |-> "none"] /\ ret = [state |-> "none"]

Locals ==
    /\ training_batches = <<>> /\ start_iteration = 0 /\ print_loss = Zero
    /\ iteration = 0 /\ loss = Zero /\ error = "None"
    /\ input_variable = <<>> /\ lengths = <<>> /\ target_variable = <<>>
    /\ mask = <<>> /\ max_target_len = 0
    /\ t = 0 /\ use_teacher_forcing = FALSE /\ decoder_input = <<>>
    /\ decoder_output = NoOutput /\ decoder_hidden = "none"
    /\ train_loss = Zero /\ print_losses = <<>> /\ n_totals = 0
    /\ mask_loss = Zero /\ nTotal = 0
    /\ grads = [en |-> NoGrad, de |-> NoGrad]
    /\ steps = [en |-> 0, de |-> 0]
    /\ files = {}
    /\ events = <<>>
    /\ step_log = <<>>

\* a trainIters run of up to MaxIter iterations
Init ==
    /\ NoCall
    /\ voc = Voc /\ pairs = IterPairs /\ decoder = IterDecoder
    /\ n_iteration \in 0..MaxIter
    /\ batch_size \in 1..2
    /\ print_every = 2
    /\ save_every \in 1..2
    /\ clip = 50
    /\ loadFilename \in {"None", "", "4000_checkpoint.tar"}
    /\ pc = "build"
    /\ Locals

\* a trainIters run of one iteration, on batches of up to MaxBatch examples
InitTrain ==
    /\ NoCall
    /\ voc \in {Voc, VocPad} /\ pairs = TrainPairs /\ decoder = TrainDecoder
    /\ n_iteration = 1
    /\ batch_size \in 1..MaxBatch
    /\ print_every = 1
    /\ save_every = 1
    /\ clip = 50
    /\ loadFilename \in {"None", "4000_checkpoint.tar"}
    /\ pc = "build"
    /\ Locals

ZeroPaddingCalls ==
    {[fn |-> "zeroPadding", l |-> l, fillvalue |-> PAD_token] :
        l \in SeqsUpTo(SeqsUpTo(CallTokens, MaxLen), MaxBatch)}
BinaryMatrixCalls ==
    {[fn |-> "binaryMatrix", l |-> l, value |-> v] :
        l \in SeqsUpTo(SeqsUpTo(CallTokens, MaxLen), MaxBatch),
        v \in {PAD_token, 3}}
Batch2TrainDataCalls ==
    {[fn |-> "batch2TrainData", voc |-> v, pair_batch |-> pb] :
        v \in {Voc, VocPad}, pb \in SeqsUpTo(CallPairs, MaxBatch)}

\* one call of a batching function
InitCall ==
    /\ call \in ZeroPaddingCalls \cup BinaryMatrixCalls \cup Batch2TrainDataCalls
    /\ ret = [state |-> "pending"]
    /\ voc = Voc /\ pairs = <<>> /\ decoder = IterDecoder
    /\ n_iteration = 0 /\ batch_size = 0 /\ print_every = 1 /\ save_every = 1
    /\ clip = 0 /\ loadFilename = "None"
    /\ pc = "call"
    /\ Locals

-----------------------------------------------------------------------------
(* Calls of the batching functions *)

Returned(r) == [state |-> "returned", error |-> r.error, value |-> r.value]

CallZeroPadding ==
    /\ pc = "call" /\ call.fn = "zeroPadding" /\ ret.state = "pending"
    /\ ret' = Returned(Ok(zeroPadding(call.l, call.fillvalue)))
    /\ UNCHANGED <<call, argVars, pc, iterVars, batchVars, decodeVars,
                   worldVars, events, step_log>>

CallBinaryMatrix ==
    /\ pc = "call" /\ call.fn = "binaryMatrix" /\ ret.state = "pending"
    /\ ret' = Returned(Ok(binaryMatrix(call.l, call.value)))
    /\ UNCHANGED <<call, argVars, pc, iterVars, batchVars, decodeVars,
                   worldVars, events, step_log>>

CallBatch2TrainData ==
    /\ pc = "call" /\ call.fn = "batch2TrainData" /\ ret.state = "pending"
    /\ ret' = Returned(batch2TrainData(call.voc, call.pair_batch))
    /\ UNCHANGED <<call, argVars, pc, iterVars, batchVars, decodeVars,
                   worldVars, events, step_log>>

NextCall == CallZeroPadding \/ CallBinaryMatrix \/ CallBatch2TrainData

SpecCall == InitCall /\ [][NextCall]_vars

-----------------------------------------------------------------------------
(* trainIters: batches, resume, loop *)

Event(op, arg) == [op |-> op, it |-> iteration, arg |-> arg]

\* the batch tuple batch2TrainData returns
BatchOf(r) == [inp |-> r.inp, lengths |-> r.lengths, output |-> r.output,
               mask |-> r.mask, max_target_len |-> r.max_target_len]

\* one element of the training_batches comprehension: batch_size random
\* choices among pairs, handed to batch2TrainData
BuildBatch ==
    /\ pc = "build"
    /\ Len(training_batches) < n_iteration
    /\ \E sample \in [1..batch_size -> 1..Len(pairs)] :
          LET r == batch2TrainData(voc, [k \in 1..batch_size |-> pairs[sample[k]]])
          IN  IF r.error # "None"
              THEN /\ error' = r.error /\ pc' = "error"
                   /\ UNCHANGED <<training_batches, events>>
              ELSE /\ training_batches' = Append(training_batches, BatchOf(r.value))
                   /\ events' = Append(events, Event("batch2TrainData",
                                                     Len(training_batches)))
                   /\ UNCHANGED <<error, pc>>
    /\ UNCHANGED <<callVars, argVars, start_iteration, print_loss, iteration,
                   loss, batchVars, decodeVars, worldVars, step_log>>

resumeStart_defined(name) == Ok(1)

\* start_iteration = checkpoint['iteration'] + 1, where no checkpoint is in scope
resumeStart(name) == Raise("NameError")

\* the initializations after the batches, up to the loop's first test
Initialize ==
    /\ pc = "build"
    /\ Len(training_batches) = n_iteration
    /\ print_loss' = Zero
    /\ IF Truthy(loadFilename)
       THEN LET r == resumeStart(loadFilename)
            IN  IF r.error # "None"
                THEN /\ start_iteration' = 1
                     /\ error' = r.error /\ pc' = "error"
                     /\ UNCHANGED iteration
                ELSE /\ start_iteration' = r.value
                     /\ iteration' = r.value
                     /\ pc' = "loop"
                     /\ UNCHANGED error
       ELSE /\ start_iteration' = 1
            /\ iteration' = 1
            /\ pc' = "loop"
            /\ UNCHANGED error
    /\ UNCHANGED <<callVars, argVars, training_batches, loss, batchVars,
                   decodeVars, worldVars, events, step_log>>

batchIndex_off(it) == it

\* training_batches[iteration - 1]
batchIndex(it) == it - 1

\* for iteration in range(start_iteration, n_iteration + 1): take the batch
\* and call train with it, or leave the loop
LoopNext ==
    /\ pc = "loop"
    /\ IF iteration <= n_iteration
       THEN LET k == batchIndex(iteration)
            IN  IF k + 1 \notin 1..Len(training_batches)
                THEN /\ error' = "IndexError" /\ pc' = "error"
                     /\ UNCHANGED <<batchVars, events, step_log>>
                ELSE LET b == training_batches[k + 1]
                     IN  /\ input_variable' = b.inp
                         /\ lengths' = b.lengths
                         /\ target_variable' = b.output
                         /\ mask' = b.mask
                         /\ max_target_len' = b.max_target_len
                         /\ events' = Append(events, Event("train", k))
                         /\ step_log' = <<>>
                         /\ pc' = "zero_grad"
                         /\ UNCHANGED error
       ELSE /\ pc' = "done"
            /\ UNCHANGED <<error, batchVars, events, step_log>>
    /\ UNCHANGED <<callVars, argVars, training_batches, start_iteration,
                   print_loss, iteration, loss, decodeVars, worldVars>>

-----------------------------------------------------------------------------
(* train *)

\* encoder_optimizer.zero_grad(); decoder_optimizer.zero_grad()
ZeroGrad ==
    /\ pc = "zero_grad"
    /\ grads' = [en |-> [NoGrad EXCEPT !.state = "zero"],
                 de |-> [NoGrad EXCEPT !.state = "zero"]]
    /\ events' = events \o <<Event("encoder_optimizer.zero_grad", 0),
                             Event("decoder_optimizer.zero_grad", 0)>>
    /\ pc' = "encode"
    /\ UNCHANGED <<callVars, argVars, iterVars, batchVars, decodeVars,
                   steps, files, step_log>>

\* loss = 0; print_losses = []; n_totals = 0; the forward pass of the encoder
Encode ==
    /\ pc = "encode"
    /\ train_loss' = Zero
    /\ print_losses' = <<>>
    /\ n_totals' = 0
    /\ events' = Append(events, Event("encoder", [input_variable |-> input_variable,
                                                  lengths |-> lengths]))
    /\ pc' = "seed"
    /\ UNCHANGED <<callVars, argVars, iterVars, batchVars, t,
                   use_teacher_forcing, decoder_input, decoder_output,
                   decoder_hidden, mask_loss, nTotal, worldVars, step_log>>

\* decoder_input = [[SOS_token] * batch_size];
\* decoder_hidden = encoder_hidden[:decoder.n_layers]
SeedDecoder ==
    /\ pc = "seed"
    /\ decoder_input' = [i \in 1..batch_size |-> SOS_token]
    /\ decoder_hidden' = "encoder_hidden[:n_layers]"
    /\ pc' = "decide"
    /\ UNCHANGED <<callVars, argVars, iterVars, batchVars, t,
                   use_teacher_forcing, decoder_output, train_loss,
                   print_losses, n_totals, mask_loss, nTotal, worldVars, events,
                   step_log>>

\* use_teacher_forcing = random.random() < teacher_forcing_ratio
DecideTeacherForcing ==
    /\ pc = "decide"
    /\ \E b \in BOOLEAN : use_teacher_forcing' = b
    /\ t' = 0
    /\ events' = Append(events, Event("random.random", 0))
    /\ pc' = "decode"
    /\ UNCHANGED <<callVars, argVars, iterVars, batchVars, decoder_input,
                   decoder_output, decoder_hidden, train_loss, print_losses,
                   n_totals, mask_loss, nTotal, worldVars, step_log>>

\* range(max_target_len)
decodeSteps(n) == 0..(n - 1)

\* teacher forcing: next input is current target
nextInputTeacherForcing(out, target, step) == target[step + 1]

nextInputFree_target(out, target, step) == target[step + 1]

\* no teacher forcing: next input is the decoder's own top-1 output
nextInputFree(out, target, step) == out.topi

\* the statements both branches share: the decoder call, then the masked loss
\* of this step added to the accumulators
DecodeStep(out, forced) ==
    LET ml == maskNLLLoss(out, target_variable[t + 1], mask[t + 1])
    IN  /\ decoder_output' = out
        /\ decoder_hidden' = "decoder_hidden"
        /\ mask_loss' = ml.loss
        /\ nTotal' = ml.nTotal
        /\ train_loss' = RatAdd(train_loss, ml.loss)
        /\ print_losses' = Append(print_losses, RatMul(ml.loss, ml.nTotal))
        /\ n_totals' = n_totals + ml.nTotal
        /\ events' = Append(events, Event("decoder", [t |-> t, forced |-> forced]))
        /\ step_log' = Append(step_log, [t |-> t, forced |-> forced,
                                         loss |-> ml.loss, nTotal |-> ml.nTotal])
        /\ t' = t + 1

DecodeTeacherForcing ==
    /\ pc = "decode"
    /\ use_teacher_forcing
    /\ t \in decodeSteps(max_target_len)
    /\ \E out \in DecoderOutputs(decoder, batch_size) :
          /\ DecodeStep(out, TRUE)
          /\ decoder_input' = nextInputTeacherForcing(out, target_variable, t)
    /\ UNCHANGED <<callVars, argVars, pc, iterVars, batchVars,
                   use_teacher_forcing, worldVars>>

DecodeFree ==
    /\ pc = "decode"
    /\ ~use_teacher_forcing
    /\ t \in decodeSteps(max_target_len)
    /\ \E out \in DecoderOutputs(decoder, batch_size) :
          /\ DecodeStep(out, FALSE)
          /\ decoder_input' = nextInputFree(out, target_variable, t)
    /\ UNCHANGED <<callVars, argVars, pc, iterVars, batchVars,
                   use_teacher_forcing, worldVars>>

\* loss.backward(), once the loop is over; loss is still the int 0 when the
\* loop ran no step
Backward ==
    /\ pc = "decode"
    /\ t \notin decodeSteps(max_target_len)
    /\ IF print_losses = <<>>
       THEN /\ error' = "AttributeError" /\ pc' = "error"
            /\ UNCHANGED <<grads, events>>
       ELSE /\ grads' = [en |-> [state |-> "computed", of |-> train_loss, max_norm |-> 0],
                         de |-> [state |-> "computed", of |-> train_loss, max_norm |-> 0]]
            /\ events' = Append(events, Event("loss.backward", 0))
            /\ pc' = "clip"
            /\ UNCHANGED error
    /\ UNCHANGED <<callVars, argVars, training_batches, start_iteration,
                   print_loss, iteration, loss, batchVars, decodeVars, steps,
                   files, step_log>>

clipGradients_encoderOnly(g, max_norm) ==
    [g EXCEPT !.en = [@ EXCEPT !.state = "clipped", !.max_norm = max_norm]]

\* clip_grad_norm_(encoder.parameters(), clip);
\* clip_grad_norm_(decoder.parameters(), clip)
clipGradients(g, max_norm) ==
    [en |-> [g.en EXCEPT !.state = "clipped", !.max_norm = max_norm],
     de |-> [g.de EXCEPT !.state = "clipped", !.max_norm = max_norm]]

ClipGradients ==
    /\ pc = "clip"
    /\ grads' = clipGradients(grads, clip)
    /\ events' = events \o
          <<Event("clip_grad_norm_(encoder)", grads'.en.max_norm),
            Event("clip_grad_norm_(decoder)", grads'.de.max_norm)>>
    /\ pc' = "step"
    /\ UNCHANGED <<callVars, argVars, iterVars, batchVars, decodeVars, steps,
                   files, step_log>>

\* encoder_optimizer.step(); decoder_optimizer.step()
OptimizerStep ==
    /\ pc = "step"
    /\ steps' = [en |-> steps.en + 1, de |-> steps.de + 1]
    /\ events' = events \o <<Event("encoder_optimizer.step", 0),
                             Event("decoder_optimizer.step", 0)>>
    /\ pc' = "return"
    /\ UNCHANGED <<callVars, argVars, iterVars, batchVars, decodeVars, grads,
                   files, step_log>>

trainResult_unweighted(losses, totals) ==
    IF totals = 0 THEN Raise("ZeroDivisionError")
    ELSE Ok(RatDiv(SumSeq(losses), Len(losses)))

\* sum(print_losses) / n_totals
trainResult(losses, totals) ==
    IF totals = 0 THEN Raise("ZeroDivisionError")
    ELSE Ok(RatDiv(SumSeq(losses), totals))

\* train returns into the loop: loss = train(...); print_loss += loss; the
\* progress line and the reset of print_loss on a print interval.  The locals
\* of train end with the call.  (The time stamp printed every 500 iterations
\* changes no state and is left out.)
Return ==
    /\ pc = "return"
    /\ LET r == trainResult(print_losses, n_totals)
       IN  IF r.error # "None"
           THEN /\ error' = r.error /\ pc' = "error"
                /\ UNCHANGED <<loss, print_loss, events, decodeVars>>
           ELSE /\ loss' = r.value
                /\ print_loss' = IF iteration % print_every = 0
                                 THEN Zero
                                 ELSE RatAdd(print_loss, r.value)
                /\ events' = IF iteration % print_every = 0
                             THEN Append(events, Event("print", iteration))
                             ELSE events
                /\ t' = 0 /\ use_teacher_forcing' = FALSE
                /\ decoder_input' = <<>> /\ decoder_output' = NoOutput
                /\ decoder_hidden' = "none" /\ train_loss' = Zero
                /\ print_losses' = <<>> /\ n_totals' = 0
                /\ mask_loss' = Zero /\ nTotal' = 0
                /\ pc' = "save"
                /\ UNCHANGED error
    /\ UNCHANGED <<callVars, argVars, training_batches, start_iteration,
                   iteration, batchVars, worldVars, step_log>>

-----------------------------------------------------------------------------
(* trainIters: checkpoints *)

save_dir == <<"s", "a", "v", "e">>
model_name == <<"c", "b">>
corpus_name == <<"m", "o", "v", "i", "e">>
train_name == <<"r", "u", "n">>
encoder_n_layers == 2
decoder_n_layers == 2

\* os.path.join(directory, '{}_{}.tar'.format(iteration, 'checkpoint')) with
\* directory = os.path.join(save_dir, model_name, corpus_name,
\*     '{}-{}_{}_{}'.format(encoder_n_layers, decoder_n_layers, hidden_size, train_name))
checkpointPath(it) ==
    LET directory ==
            PathJoin(<<save_dir, model_name, corpus_name,
                       FormatInt(encoder_n_layers) \o <<"-">>
                       \o FormatInt(decoder_n_layers) \o <<"_">>
                       \o FormatInt(hidden_size) \o <<"_">> \o train_name>>)
    IN  PathJoin(<<directory,
                   FormatInt(it) \o <<"_">>
                   \o <<"c", "h", "e", "c", "k", "p", "o", "i", "n", "t">>
                   \o <<".", "t", "a", "r">> >>)

saveDue_print(it) == it % print_every = 0

\* iteration % save_every == 0
saveDue(it) == it % save_every = 0

\* the end of one pass of the loop: the checkpoint on a save interval, then
\* the next value of iteration
SaveCheckpoint ==
    /\ pc = "save"
    /\ IF saveDue(iteration)
       THEN LET path == checkpointPath(iteration)
                content == [iteration |-> iteration, loss |-> loss,
                            en |-> steps.en, de |-> steps.de,
                            en_opt |-> steps.en, de_opt |-> steps.de]
            IN  /\ files' = {f \in files : f.path # path}
                                \cup {[path |-> path, content |-> content]}
                /\ events' = Append(events, Event("torch.save", path))
       ELSE UNCHANGED <<files, events>>
    /\ iteration' = iteration + 1
    /\ pc' = "loop"
    /\ UNCHANGED <<callVars, argVars, training_batches, start_iteration,
                   print_loss, loss, error, batchVars, decodeVars, grads, steps,
                   step_log>>

Next ==
    \/ BuildBatch
    \/ Initialize
    \/ LoopNext
    \/ ZeroGrad
    \/ Encode
    \/ SeedDecoder
    \/ DecideTeacherForcing
    \/ DecodeTeacherForcing
    \/ DecodeFree
    \/ Backward
    \/ ClipGradients
    \/ OptimizerStep
    \/ Return
    \/ SaveCheckpoint

\* a run of trainIters over up to MaxIter iterations
Spec == Init /\ [][Next]_vars

\* a run of trainIters through one call of train
SpecTrain == InitTrain /\ [][Next]_vars

-----------------------------------------------------------------------------
(* Claims about the batching functions, checked under SpecCall *)

ReturnedFrom(fn) == call.fn = fn /\ ret.state = "returned"
LongestOf(l) == IF l = <<>> THEN 0 ELSE Max({Len(l[i]) : i \in 1..Len(l)})
\* column i of a row-major matrix: the padded form of sequence i
Column(m, i) == [r \in 1..Len(m) |-> m[r][i]]

\* C1: zeroPadding returns a column-major matrix: it has as many rows as the
\* longest sequence of the batch is long, every row has one entry per
\* sequence, and column i holds sequence i in its order followed by the
\* padding id only.
C1_Padding ==
    ReturnedFrom("zeroPadding") =>
        LET l == call.l
            p == ret.value
        IN  /\ Len(p) = LongestOf(l)
            /\ \A r \in 1..Len(p) : Len(p[r]) = Len(l)
            /\ \A i \in 1..Len(l) :
                  /\ Len(Column(p, i)) = LongestOf(l)
                  /\ SubSeq(Column(p, i), 1, Len(l[i])) = l[i]
                  /\ \A r \in (Len(l[i]) + 1)..Len(p) : p[r][i] = PAD_token

\* a ragged batch was padded
C1_Witness ==
    /\ ReturnedFrom("zeroPadding")
    /\ Len(call.l) >= 2
    /\ \E i, j \in 1..Len(call.l) : 0 < Len(call.l[i]) /\ Len(call.l[i]) < Len(call.l[j])
    /\ \E r \in 1..Len(ret.value) : \E i \in 1..Len(call.l) :
          r > Len(call.l[i]) /\ ret.value[r][i] = PAD_token

SameShape(a, b) ==
    Len(a) = Len(b) /\ \A i \in 1..Len(a) : Len(a[i]) = Len(b[i])
MaskOf(m, tokens) ==
    /\ SameShape(m, tokens)
    /\ \A i \in 1..Len(tokens) : \A j \in 1..Len(tokens[i]) :
          /\ m[i][j] \in {0, 1}
          /\ m[i][j] = 1 <=> tokens[i][j] # PAD_token

\* C2: the mask has the shape of the matrix it is built from and holds 1
\* exactly where the token is not the padding id, whatever value argument
\* binaryMatrix is given; the mask outputVar returns is that of the padded target.
C2_Masking ==
    /\ ReturnedFrom("binaryMatrix") => MaskOf(ret.value, call.l)
    /\ (ReturnedFrom("batch2TrainData") /\ ret.error = "None") =>
           MaskOf(ret.value.mask, ret.value.output)

\* a value argument other than the padding id was passed, on a matrix holding
\* that value, the padding id and another token
C2_Witness ==
    /\ ReturnedFrom("binaryMatrix")
    /\ call.value # PAD_token
    /\ \E i \in 1..Len(call.l) : \E j, k \in 1..Len(call.l[i]) :
          /\ call.l[i][j] = PAD_token /\ ret.value[i][j] = 0
          /\ call.l[i][k] = call.value /\ ret.value[i][k] = 1

NonIncreasing(s) == \A i \in 1..(Len(s) - 1) : s[i] >= s[i + 1]
\* sequence s without its trailing padding: the first n entries
Unpadded(s, n) == SubSeq(s, 1, n)

\* C3: when batch2TrainData returns, lengths is non-increasing, lengths[0] is
\* the number of rows of the padded input, max_target_len is the number of
\* rows of the padded target and of the mask, and the examples are the given
\* pairs in some order: column i of the input, of the target and of the mask
\* all come from the same pair.
C3_BatchAssembler ==
    (ReturnedFrom("batch2TrainData") /\ ret.error = "None") =>
        LET b == ret.value
            given == call.pair_batch
            n == Len(given)
        IN  /\ Len(b.lengths) = n
            /\ NonIncreasing(b.lengths)
            /\ b.lengths[1] = Len(b.inp)
            /\ b.max_target_len = Len(b.output)
            /\ b.max_target_len = Len(b.mask)
            /\ \E f \in Permutations(1..n) : \A i \in 1..n :
                  LET src == indexesFromSentence(call.voc, given[f[i]][1]).value
                      tgt == indexesFromSentence(call.voc, given[f[i]][2]).value
                  IN  /\ b.lengths[i] = Len(split(given[f[i]][1], " ")) + 1
                      /\ Unpadded(Column(b.inp, i), b.lengths[i]) = src
                      /\ Unpadded(Column(b.output, i), Len(tgt)) = tgt
                      /\ \A r \in 1..Len(b.mask) :
                            b.mask[r][i] = 1 <=>
                                (r <= Len(tgt) /\ tgt[r] # PAD_token)

\* a batch given shortest source first came back reordered, with padding in
\* its target
C3_Witness ==
    /\ ReturnedFrom("batch2TrainData") /\ ret.error = "None"
    /\ Len(call.pair_batch) >= 2
    /\ ret.value.pair_batch # call.pair_batch
    /\ ret.value.lengths[1] > ret.value.lengths[Len(ret.value.lengths)]
    /\ \E r \in 1..Len(ret.value.mask) : \E i \in 1..Len(call.pair_batch) :
          ret.value.mask[r][i] = 0

-----------------------------------------------------------------------------
(* Claims about train, checked under SpecTrain *)

TrainPcs == {"zero_grad", "encode", "seed", "decide", "decode", "clip",
             "step", "return"}

\* the events of iteration it among the operations ops, in order
EventsOf(it, ops) == SelectSeq(events, LAMBDA e : e.it = it /\ e.op \in ops)
OpsOf(it, ops) == [k \in 1..Len(EventsOf(it, ops)) |-> EventsOf(it, ops)[k].op]

\* C4: in a call of train the teacher-forcing draw is made once, before the
\* first decode step, and every decode step runs in the mode drawn.  The
\* decoder input of step 0 is SOS_token for every example; that of a step
\* t >= 1 is row t-1 of the target under teacher forcing and the top-1 output
\* of the decoder at step t-1 otherwise.
C4_TeacherForcing ==
    \A it \in 1..iteration :
        LET draws == EventsOf(it, {"random.random", "decoder"})
            decodes == EventsOf(it, {"decoder"})
        IN  /\ Len(decodes) > 0 =>
                  /\ draws[1].op = "random.random"
                  /\ \A k \in 2..Len(draws) : draws[k].op = "decoder"
            /\ \A j, k \in 1..Len(decodes) :
                  decodes[j].arg.forced = decodes[k].arg.forced
            /\ (it = iteration /\ pc \in TrainPcs) =>
                  /\ \A k \in 1..Len(decodes) :
                        decodes[k].arg.forced = use_teacher_forcing
                  /\ (pc = "decode" /\ t = 0) =>
                        /\ Len(decoder_input) = batch_size
                        /\ \A i \in 1..batch_size : decoder_input[i] = SOS_token
                  /\ (pc = "decode" /\ t >= 1 /\ use_teacher_forcing) =>
                        decoder_input = target_variable[t]
                  /\ (pc = "decode" /\ t >= 1 /\ ~use_teacher_forcing) =>
                        decoder_input = decoder_output.topi

\* without teacher forcing, the input of the third step is the decoder's own
\* prediction and differs from the target
C4_Witness ==
    /\ pc = "decode" /\ t = 2 /\ max_target_len = 3 /\ batch_size >= 2
    /\ ~use_teacher_forcing
    /\ decoder_input = decoder_output.topi
    /\ decoder_input # target_variable[t]
    /\ Len(EventsOf(iteration, {"decoder"})) = 2

ExpectedOps(T) ==
    <<"encoder_optimizer.zero_grad", "decoder_optimizer.zero_grad", "encoder">>
    \o [k \in 1..T |-> "decoder"]
    \o <<"loss.backward", "clip_grad_norm_(encoder)", "clip_grad_norm_(decoder)",
         "encoder_optimizer.step", "decoder_optimizer.step">>
TrainOps == {ExpectedOps(1)[k] : k \in 1..Len(ExpectedOps(1))}
\* how many of the expected operations a call has made when it is at pc
OpsDone(at, step, T) ==
    CASE at = "zero_grad" -> 0
      [] at = "encode" -> 2
      [] at \in {"seed", "decide"} -> 3
      [] at = "decode" -> 3 + step
      [] at = "clip" -> 3 + T + 1
      [] at = "step" -> 3 + T + 3
      [] OTHER -> 3 + T + 5

\* C5: a call of train makes, in this order and each once: the two
\* zero_grad calls, the encoder call on the whole input batch, max_target_len
\* decoder calls for t = 0 .. max_target_len-1 each adding one masked loss,
\* one backward of the accumulated loss, the two clips to the same bound clip,
\* the two optimizer steps.
C5_StepOrdering ==
    /\ \A it \in 1..(iteration - 1) :
          it <= Len(training_batches) =>
              OpsOf(it, TrainOps) = ExpectedOps(training_batches[it].max_target_len)
    /\ pc \in TrainPcs \cup {"save"} =>
          LET T == max_target_len
              ev == EventsOf(iteration, TrainOps)
          IN  /\ OpsOf(iteration, TrainOps)
                    = SubSeq(ExpectedOps(T), 1, OpsDone(pc, t, T))
              /\ \A k \in 1..Len(ev) :
                    /\ ev[k].op = "decoder" => ev[k].arg.t = k - 4
                    /\ ev[k].op = "encoder" =>
                          ev[k].arg = [input_variable |-> input_variable,
                                       lengths |-> lengths]
                    /\ ev[k].op \in {"clip_grad_norm_(encoder)",
                                     "clip_grad_norm_(decoder)"} => ev[k].arg = clip
              /\ Len(step_log) = Len(EventsOf(iteration, {"decoder"}))
              /\ pc \in {"decode", "clip", "step", "return"} =>
                    /\ Len(print_losses) = Len(step_log)
                    /\ train_loss = SumSeq([k \in 1..Len(step_log) |-> step_log[k].loss])
              /\ pc \in {"step", "return", "save"} =>
                    /\ Len(step_log) = T
                    /\ grads.en = [state |-> "clipped", max_norm |-> clip,
                                   of |-> SumSeq([k \in 1..T |-> step_log[k].loss])]
                    /\ grads.de = grads.en
              /\ pc \in {"return", "save"} =>
                    steps = [en |-> iteration, de |-> iteration]
              /\ pc \in TrainPcs \ {"return"} =>
                    steps = [en |-> iteration - 1, de |-> iteration - 1]

\* a call over three decode steps has come to its end
C5_Witness ==
    /\ pc = "save" /\ max_target_len = 3 /\ batch_size >= 2
    /\ OpsOf(iteration, TrainOps) = ExpectedOps(3)
    /\ steps = [en |-> 1, de |-> 1]

OnesIn(row) == Cardinality({i \in 1..Len(row) : row[i] = 1})

\* C6: the loss train returns is (sum over t of loss_t * n_t) / (sum over t of
\* n_t), t = 0 .. max_target_len-1, with loss_t the masked mean of step t and
\* n_t the number of ones in mask row t, in both branches.
C6_WeightedAverage ==
    /\ (pc \in {"decode", "clip", "step", "return"} /\ t >= 1) =>
          LET real == {i \in 1..batch_size : mask[t][i] = 1}
              ce == [i \in 1..batch_size |->
                        IF i \in real THEN decoder_output.ce[i] ELSE 0]
          IN  /\ step_log[t].loss = Rat(SumInts(ce), Cardinality(real))
              /\ step_log[t].loss = mask_loss
    /\ pc = "save" =>
          LET T == max_target_len
              weighted == [k \in 1..T |-> RatMul(step_log[k].loss, OnesIn(mask[k]))]
              tokens == SumInts([k \in 1..T |-> OnesIn(mask[k])])
          IN  /\ Len(step_log) = T
              /\ \A k \in 1..T : step_log[k].nTotal = OnesIn(mask[k])
              /\ tokens > 0
              /\ loss = RatDiv(SumSeq(weighted), tokens)

\* a call without teacher forcing returned, its steps differing in masked
\* mean and in token count
C6_Witness ==
    /\ pc = "save" /\ ~IsNaN(loss)
    /\ \E j, k \in 1..Len(step_log) :
          /\ ~step_log[j].forced
          /\ step_log[j].nTotal < step_log[k].nTotal
          /\ step_log[j].loss # step_log[k].loss
          /\ step_log[j].loss # loss /\ step_log[k].loss # loss

\* no word id and no end-of-sequence id is the padding id
NoPadIds ==
    /\ EOS_token # PAD_token
    /\ \A w \in DOMAIN voc.word2index : voc.word2index[w] # PAD_token

\* C10: when no vocabulary id is the padding id, every batch built has
\* max_target_len >= 1, a first mask row of ones and a one in every mask row;
\* every masked mean of train is then taken over at least one position, and
\* n_totals is at least max_target_len > 0 when train divides by it.
C10_MaskRowsNonEmpty ==
    NoPadIds =>
        /\ \A k \in 1..Len(training_batches) :
              LET b == training_batches[k]
              IN  /\ b.max_target_len >= 1
                  /\ Len(b.mask) = b.max_target_len
                  /\ \A i \in 1..Len(b.mask[1]) : b.mask[1][i] = 1
                  /\ \A r \in 1..b.max_target_len : OnesIn(b.mask[r]) >= 1
        /\ \A k \in 1..Len(step_log) :
              step_log[k].nTotal >= 1 /\ ~IsNaN(step_log[k].loss)
        /\ pc = "decode" => n_totals >= t
        /\ pc = "return" => n_totals >= max_target_len /\ n_totals > 0
        /\ error # "ZeroDivisionError"

\* train is about to divide, on a batch whose target is padded
C10_Witness ==
    /\ NoPadIds /\ pc = "return" /\ batch_size >= 2
    /\ \E r \in 1..Len(mask) : \E i \in 1..batch_size : mask[r][i] = 0
    /\ n_totals > max_target_len

\* with a word whose id is the padding id, a masked mean is taken over no
\* position at all
PadIdWord_Witness ==
    /\ ~NoPadIds /\ pc = "return"
    /\ \E k \in 1..Len(step_log) : step_log[k].nTotal = 0 /\ IsNaN(step_log[k].loss)

-----------------------------------------------------------------------------
(* Claims about trainIters, checked under Spec *)

AllEvents(ops) == SelectSeq(events, LAMBDA e : e.op \in ops)
\* the index in events of the first event of iteration it with operation op (0 if none)
IndexOf(op, it) ==
    LET at == {k \in 1..Len(events) : events[k].op = op /\ events[k].it = it}
    IN  IF at = {} THEN 0 ELSE Min(at)

\* the weighted average of the masked losses the latest call of train logged
LossOfLog ==
    RatDiv(SumSeq([k \in 1..Len(step_log) |->
                      RatMul(step_log[k].loss, step_log[k].nTotal)]),
           SumInts([k \in 1..Len(step_log) |-> step_log[k].nTotal]))

\* <save_dir>/<model_name>/<corpus_name>/<enc>-<dec>_<hidden>_<train_name>/<iteration>_checkpoint.tar
ExpectedPath(it) ==
    <<"s", "a", "v", "e", "/", "c", "b", "/", "m", "o", "v", "i", "e", "/",
      "2", "-", "2", "_", "5", "0", "0", "_", "r", "u", "n", "/">>
    \o FormatInt(it)
    \o <<"_", "c", "h", "e", "c", "k", "p", "o", "i", "n", "t", ".", "t", "a", "r">>

\* the iterations whose pass of the loop is over
Completed == IF iteration = 0 THEN 0 ELSE iteration - 1

C7_Cadence ==
    LET due == {i \in 1..Completed : i % save_every = 0}
        saves == AllEvents({"torch.save"})
    IN  /\ {f.content.iteration : f \in files} = due
        /\ Cardinality(files) = Cardinality(due)
        /\ Len(saves) = Cardinality(due)
        /\ pc = "done" => Cardinality(files) = n_iteration \div save_every
        /\ \A f \in files :
              /\ f.path = ExpectedPath(f.content.iteration)
              /\ f.path = checkpointPath(f.content.iteration)
              /\ f.content.en = f.content.iteration
              /\ f.content.de = f.content.iteration
              /\ IndexOf("decoder_optimizer.step", f.content.iteration) > 0
              /\ IndexOf("decoder_optimizer.step", f.content.iteration)
                    < IndexOf("torch.save", f.content.iteration)
        /\ \A f, g \in files : f.path = g.path => f = g

\* C7: a checkpoint is written at iteration i exactly when save_every divides
\* i, floor(n_iteration / save_every) of them in a whole run; it holds i and
\* the loss train returned for i, is written after the optimizer steps of i,
\* at the path the configuration and i determine, and no two iterations
\* write the same path.
C7_CheckpointCadence ==
    /\ C7_Cadence
    \* from the return of train to the next call, loss is what that call returned
    /\ (pc \in {"save", "loop", "done"} /\ iteration >= 1 /\ Len(step_log) > 0) =>
          /\ loss = LossOfLog
          /\ LET trains == AllEvents({"train"})
                 latest == IF pc = "save" THEN iteration ELSE iteration - 1
             IN  /\ trains[Len(trains)].it = latest
                 /\ \A f \in files :
                       f.content.iteration = latest => f.content.loss = loss

\* a run wrote two checkpoints holding different losses
C7_Witness ==
    /\ pc = "done" /\ n_iteration = 2 /\ save_every = 1
    /\ \E f, g \in files :
          /\ f.content.iteration = 1 /\ g.content.iteration = 2
          /\ f.content.loss # g.content.loss
          /\ f.path # g.path

\* the longest target a batch of this corpus can hold
TargetCap == Max({Len(split(pairs[i][2], " ")) + 1 : i \in 1..Len(pairs)})
\* the steps a run has left at most
Rank ==
    LET K == 11 + TargetCap
        inIteration ==
            CASE pc = "loop" -> 10 + TargetCap
              [] pc = "zero_grad" -> 9 + TargetCap
              [] pc = "encode" -> 8 + TargetCap
              [] pc = "seed" -> 7 + TargetCap
              [] pc = "decide" -> 6 + TargetCap
              [] pc = "decode" -> 5 + (max_target_len - t)
              [] pc = "clip" -> 4
              [] pc = "step" -> 3
              [] pc = "return" -> 2
              [] pc = "save" -> 1
    IN  CASE pc = "build" ->
                (n_iteration + 2) * K + (n_iteration - Len(training_batches)) + 1
          [] pc \in {"done", "error"} -> 0
          [] OTHER -> (n_iteration + 1 - iteration) * K + inIteration

C8_Driver ==
    ~Truthy(loadFilename) =>
        LET trains == AllEvents({"train"})
            order == AllEvents({"batch2TrainData", "train"})
        IN  /\ pc # "error"
            /\ Len(trains) > 0 =>
                  /\ Len(training_batches) = n_iteration
                  /\ \A k \in 1..n_iteration : order[k].op = "batch2TrainData"
                  /\ \A k \in (n_iteration + 1)..Len(order) : order[k].op = "train"
            /\ Len(trains) <= n_iteration
            /\ \A k \in 1..Len(trains) : trains[k].it = k /\ trains[k].arg = k - 1
            /\ pc \in TrainPcs \cup {"save"} =>
                  /\ Len(trains) = iteration
                  /\ [inp |-> input_variable, lengths |-> lengths,
                      output |-> target_variable, mask |-> mask,
                      max_target_len |-> max_target_len]
                        = training_batches[iteration]
            /\ pc = "done" =>
                  /\ Len(trains) = n_iteration
                  /\ iteration = n_iteration + 1
                  /\ steps = [en |-> n_iteration, de |-> n_iteration]
            /\ pc # "done" => Rank > 0

C8_Progress == ~Truthy(loadFilename) => Rank' < Rank

\* C8: with loadFilename not set, all n_iteration batches are built before
\* the first call of train; train is called for iterations 1 .. n_iteration in
\* this order, the call of iteration k on batch k-1; every step of the run
\* lowers the number of steps it has left, which is 0 only once the loop is over.
C8_IterationDriver == [](C8_Driver) /\ [][C8_Progress]_vars

\* a run over two different batches came to its end
C8_Witness ==
    /\ pc = "done" /\ ~Truthy(loadFilename) /\ n_iteration >= 2
    /\ training_batches[1] # training_batches[2]
    /\ Len(AllEvents({"train"})) = n_iteration

\* C9: with loadFilename set, the run ends in the NameError of the resume
\* read, after all batches are built; it never calls train, resets or steps
\* an optimizer, or writes a checkpoint.
C9_ResumeFails ==
    Truthy(loadFilename) =>
        /\ pc \in {"build", "error"}
        /\ pc = "build" => Len(training_batches) <= n_iteration
        /\ pc = "error" =>
              /\ error = "NameError"
              /\ Len(training_batches) = n_iteration
        /\ \A k \in 1..Len(events) : events[k].op = "batch2TrainData"
        /\ Len(events) = Len(training_batches)
        /\ files = {}
        /\ steps = [en |-> 0, de |-> 0]
        /\ grads = [en |-> NoGrad, de |-> NoGrad]

\* a resumed run stopped at the resume read with its batches built
C9_Witness ==
    /\ Truthy(loadFilename) /\ pc = "error" /\ error = "NameError"
    /\ n_iteration >= 2 /\ Len(training_batches) = n_iteration

====
